---- MODULE Spec2Model ----
(***************************************************************************)
(* State-machine model of examples/python_mcp_client.py: the coroutine     *)
(* main() that launches the Ethereum Trading MCP server over stdio, does   *)
(* the initialize handshake, lists the tools and calls three tools.        *)
(*                                                                         *)
(* One action per statement of main(); every `await` is split into the     *)
(* step that issues the request and the step in which the environment      *)
(* answers (a response or a raised error).  The emoji that start the       *)
(* printed literals of the source are omitted from the strings.            *)
(***************************************************************************)
EXTENDS Naturals, Sequences, FiniteSets, TLC

VARIABLES
    pc,             \* the statement main() is at
    osEnv,          \* the process environment read by os.getenv
    server_params,  \* StdioServerParameters built on lines 16-24, or Null
    transportAcq,   \* number of times stdio_client's scope was entered
    sessionAcq,     \* number of times ClientSession's scope was entered
    released,       \* scopes exited so far, in order ("session"/"transport")
    requests,       \* remote requests issued so far, in order
    log,            \* request/response events on the wire, in order
    failedAt,       \* the operation the environment failed, or "none"
    exc,            \* an exception is propagating out of main()
    tools,          \* tools.tools of the list_tools response
    toolIdx,        \* position of the for loop of line 35
    callIdx,        \* which of the three call_tool blocks is running
    result,         \* result.content of the last call_tool response
    output          \* lines printed so far

vars == <<pc, osEnv, server_params, transportAcq, sessionAcq, released,
          requests, log, failedAt, exc, tools, toolIdx, callIdx, result,
          output>>

Null == "null"
Absent == "absent"

\* ---- bounds of the model ------------------------------------------------
MaxTools == 2
MaxContent == 2

EnvNames == {"ETH_RPC_URL", "PRIVATE_KEY", "CHAIN_ID"}
\* the value each variable is set to when it is set
Overrides == [ETH_RPC_URL |-> "https://rpc.example",
              PRIVATE_KEY |-> "00000000000000000000000000000000000000000000000000000000000000ff",
              CHAIN_ID    |-> "5"]
Environments == {env \in [EnvNames -> {Absent} \cup {Overrides[k] : k \in EnvNames}] :
                    \A k \in EnvNames : env[k] \in {Absent, Overrides[k]}}
ToolPool == {[name |-> "get_balance", description |-> "x"],
             [name |-> "swap_tokens", description |-> "y"]}
Texts == {"1.5 ETH", "7.23 USD"}

BoundedSeq(S, n) == UNION {[1..k -> S] : k \in 0..n}

\* ---- launch configuration (lines 16-24) ---------------------------------
Getenv(env, key, default) == IF env[key] = Absent THEN default ELSE env[key]

DefaultRpcUrl == "https://eth.llamarpc.com"
DefaultPrivateKey ==
    "0000000000000000000000000000000000000000000000000000000000000001"

LaunchEnv(env) ==
    [ETH_RPC_URL |-> Getenv(env, "ETH_RPC_URL", DefaultRpcUrl),
     PRIVATE_KEY |-> Getenv(env, "PRIVATE_KEY", DefaultPrivateKey),
     CHAIN_ID    |-> "1"]

StdioServerParameters(env) ==
    [command |-> "cargo", args |-> <<"run", "--release">>,
     env |-> LaunchEnv(env)]

\* ---- the three call_tool blocks (lines 39-71) ---------------------------
Calls ==
    << [label |-> "Getting ETH balance...",
        name |-> "get_balance",
        arguments |->
          [address |-> "0xd8dA6BF26964aF9D7eEd9e03E53415D37aA96045"]],
       [label |-> "Getting UNI token price in USD...",
        name |-> "get_token_price",
        arguments |->
          [token_address |-> "0x1f9840a85d5aF5bf1D1762F925BDADdC4201F984",
           quote_currency |-> "USD"]],
       [label |-> "Simulating token swap (1 WETH -> USDC)...",
        name |-> "swap_tokens",
        arguments |->
          [from_token |-> "0xC02aaA39b223FE8D0A0e5C4F27eAD9083C756Cc2",
           to_token |-> "0xA0b86991c6218b36c1d19D4a2e9Eb0cE3606eB48",
           amount |-> "1.0",
           slippage_tolerance |-> "0.5"]] >>

ConnectedLine == "Connected to Ethereum Trading MCP Server"
ToolsHeader == "Available tools:"
ToolLine(tool) == "  - " \o tool.name \o ": " \o tool.description
ResultLine(text) == "Result: " \o text

\* Variant of FirstText that takes the last content item.
LastText(content) == content[Len(content)].text

\* result.content[0].text (lines 47, 58, 71)
FirstText(content) == content[1].text

Request(method, name, arguments) ==
    [method |-> method, name |-> name, arguments |-> arguments]
NoArgs == <<>>
\* An event on the wire.  kind is "request", "response" (an answer) or
\* "error" (the awaited call raised); payload is what an answer carries.
Event(kind, method, payload) ==
    [kind |-> kind, method |-> method, payload |-> payload]
Answered(e) == e.kind \in {"response", "error"}

ContentItems == {[text |-> t] : t \in Texts}

\* Variant of Unwind without the scoped cleanup: an exception leaves main()
\* at once, as it would had the resources been opened without `async with`.
UnwindWithoutCleanup(scope) == "done"

\* Where control goes when an exception is raised inside the given scope:
\* `async with` runs the __aexit__ of every scope that was entered
\* (lines 26-27), innermost first.
Unwind(scope) ==
    CASE scope = "session"   -> "exit_session"
      [] scope = "transport" -> "exit_transport"
      [] OTHER               -> "done"

Init ==
    /\ pc = "build_params"
    /\ osEnv \in Environments
    /\ server_params = Null
    /\ transportAcq = 0
    /\ sessionAcq = 0
    /\ released = <<>>
    /\ requests = <<>>
    /\ log = <<>>
    /\ failedAt = "none"
    /\ exc = FALSE
    /\ tools = <<>>
    /\ toolIdx = 0
    /\ callIdx = 0
    /\ result = <<>>
    /\ output = <<>>

\* lines 16-24
BuildParams ==
    /\ pc = "build_params"
    /\ server_params' = StdioServerParameters(osEnv)
    /\ pc' = "enter_transport"
    /\ UNCHANGED <<osEnv, transportAcq, sessionAcq, released, requests, log,
                   failedAt, exc, tools, toolIdx, callIdx, result, output>>

\* line 26: async with stdio_client(server_params) -- __aenter__
EnterTransport ==
    /\ pc = "enter_transport"
    /\ \/ /\ transportAcq' = transportAcq + 1
          /\ pc' = "enter_session"
          /\ UNCHANGED <<failedAt, exc>>
       \/ /\ failedAt' = "stdio_client"
          /\ exc' = TRUE
          /\ pc' = Unwind("main")
          /\ UNCHANGED transportAcq
    /\ UNCHANGED <<osEnv, server_params, sessionAcq, released, requests, log,
                   tools, toolIdx, callIdx, result, output>>

\* line 27: async with ClientSession(read, write) -- __aenter__
EnterSession ==
    /\ pc = "enter_session"
    /\ \/ /\ sessionAcq' = sessionAcq + 1
          /\ pc' = "initialize"
          /\ UNCHANGED <<failedAt, exc>>
       \/ /\ failedAt' = "ClientSession"
          /\ exc' = TRUE
          /\ pc' = Unwind("transport")
          /\ UNCHANGED sessionAcq
    /\ UNCHANGED <<osEnv, server_params, transportAcq, released, requests,
                   log, tools, toolIdx, callIdx, result, output>>

\* Variant of SendInitialize with the await forgotten: main() goes on
\* without waiting for the answer.
SendInitializeNotAwaited ==
    /\ pc = "initialize"
    /\ requests' = Append(requests, Request("initialize", Null, NoArgs))
    /\ log' = Append(log, Event("request", "initialize", <<>>))
    /\ pc' = "print_connected"
    /\ UNCHANGED <<osEnv, server_params, transportAcq, sessionAcq, released,
                   failedAt, exc, tools, toolIdx, callIdx, result, output>>

\* line 29: await session.initialize() -- the request goes out
SendInitialize ==
    /\ pc = "initialize"
    /\ requests' = Append(requests, Request("initialize", Null, NoArgs))
    /\ log' = Append(log, Event("request", "initialize", <<>>))
    /\ pc' = "await_initialize"
    /\ UNCHANGED <<osEnv, server_params, transportAcq, sessionAcq, released,
                   failedAt, exc, tools, toolIdx, callIdx, result, output>>

\* Variant of RecvInitialize that swallows a failed handshake and goes on.
RecvInitializeSwallowed ==
    /\ pc = "await_initialize"
    /\ \/ /\ log' = Append(log, Event("response", "initialize", <<>>))
          /\ UNCHANGED failedAt
       \/ /\ log' = Append(log, Event("error", "initialize", <<>>))
          /\ failedAt' = "initialize"
    /\ pc' = "print_connected"
    /\ UNCHANGED <<osEnv, server_params, transportAcq, sessionAcq, released,
                   requests, exc, tools, toolIdx, callIdx, result, output>>

\* line 29: await session.initialize() -- the answer, or an error raised
RecvInitialize ==
    /\ pc = "await_initialize"
    /\ \/ /\ log' = Append(log, Event("response", "initialize", <<>>))
          /\ pc' = "print_connected"
          /\ UNCHANGED <<failedAt, exc>>
       \/ /\ log' = Append(log, Event("error", "initialize", <<>>))
          /\ failedAt' = "initialize"
          /\ exc' = TRUE
          /\ pc' = Unwind("session")
    /\ UNCHANGED <<osEnv, server_params, transportAcq, sessionAcq, released,
                   requests, tools, toolIdx, callIdx, result, output>>

\* line 30: print("... Connected to Ethereum Trading MCP Server\n")
PrintConnected ==
    /\ pc = "print_connected"
    /\ output' = output \o <<ConnectedLine, "">>
    /\ pc' = "list_tools"
    /\ UNCHANGED <<osEnv, server_params, transportAcq, sessionAcq, released,
                   requests, log, failedAt, exc, tools, toolIdx, callIdx,
                   result>>

\* line 33: tools = await session.list_tools() -- the request goes out
SendListTools ==
    /\ pc = "list_tools"
    /\ requests' = Append(requests, Request("list_tools", Null, NoArgs))
    /\ log' = Append(log, Event("request", "list_tools", <<>>))
    /\ pc' = "await_list_tools"
    /\ UNCHANGED <<osEnv, server_params, transportAcq, sessionAcq, released,
                   failedAt, exc, tools, toolIdx, callIdx, result, output>>

\* Variant of RecvListTools that re-issues a failed list_tools once.
RecvListToolsRetried ==
    /\ pc = "await_list_tools"
    /\ \/ /\ \E ts \in BoundedSeq(ToolPool, MaxTools) :
                /\ tools' = ts
                /\ log' = Append(log, Event("response", "list_tools", ts))
          /\ pc' = "print_header"
          /\ UNCHANGED <<failedAt, exc>>
       \/ /\ log' = Append(log, Event("error", "list_tools", <<>>))
          /\ IF failedAt = "none"
                THEN /\ failedAt' = "retried"
                     /\ pc' = "list_tools"
                     /\ UNCHANGED exc
                ELSE /\ failedAt' = "list_tools"
                     /\ pc' = Unwind("session")
                     /\ exc' = TRUE
          /\ UNCHANGED tools
    /\ UNCHANGED <<osEnv, server_params, transportAcq, sessionAcq, released,
                   requests, toolIdx, callIdx, result, output>>

\* line 33: tools = await session.list_tools() -- the answer, or an error
RecvListTools ==
    /\ pc = "await_list_tools"
    /\ \/ /\ \E ts \in BoundedSeq(ToolPool, MaxTools) :
                /\ tools' = ts
                /\ log' = Append(log, Event("response", "list_tools", ts))
          /\ pc' = "print_header"
          /\ UNCHANGED <<failedAt, exc>>
       \/ /\ log' = Append(log, Event("error", "list_tools", <<>>))
          /\ failedAt' = "list_tools"
          /\ exc' = TRUE
          /\ pc' = Unwind("session")
          /\ UNCHANGED tools
    /\ UNCHANGED <<osEnv, server_params, transportAcq, sessionAcq, released,
                   requests, toolIdx, callIdx, result, output>>

\* Variant of PrintHeader whose loop starts one tool too late.
PrintHeaderSkippingFirst ==
    /\ pc = "print_header"
    /\ output' = Append(output, ToolsHeader)
    /\ toolIdx' = 2
    /\ pc' = "tool_loop"
    /\ UNCHANGED <<osEnv, server_params, transportAcq, sessionAcq, released,
                   requests, log, failedAt, exc, tools, callIdx, result>>

\* lines 34-35: print the header, start the for loop over tools.tools
PrintHeader ==
    /\ pc = "print_header"
    /\ output' = Append(output, ToolsHeader)
    /\ toolIdx' = 1
    /\ pc' = "tool_loop"
    /\ UNCHANGED <<osEnv, server_params, transportAcq, sessionAcq, released,
                   requests, log, failedAt, exc, tools, callIdx, result>>

\* lines 35-36: one iteration of the for loop
PrintTool ==
    /\ pc = "tool_loop"
    /\ toolIdx <= Len(tools)
    /\ output' = Append(output, ToolLine(tools[toolIdx]))
    /\ toolIdx' = toolIdx + 1
    /\ UNCHANGED <<pc, osEnv, server_params, transportAcq, sessionAcq,
                   released, requests, log, failedAt, exc, tools, callIdx,
                   result>>

\* lines 35, 37: the loop is exhausted; print()
PrintBlank ==
    /\ pc = "tool_loop"
    /\ toolIdx > Len(tools)
    /\ output' = Append(output, "")
    /\ callIdx' = 1
    /\ pc' = "print_label"
    /\ UNCHANGED <<osEnv, server_params, transportAcq, sessionAcq, released,
                   requests, log, failedAt, exc, tools, toolIdx, result>>

\* lines 40, 50, 61: print the label of the call
PrintLabel ==
    /\ pc = "print_label"
    /\ output' = Append(output, Calls[callIdx].label)
    /\ pc' = "call_tool"
    /\ UNCHANGED <<osEnv, server_params, transportAcq, sessionAcq, released,
                   requests, log, failedAt, exc, tools, toolIdx, callIdx,
                   result>>

\* lines 41-46, 51-57, 62-70: await session.call_tool(...) -- request
SendCallTool ==
    /\ pc = "call_tool"
    /\ requests' = Append(requests, Request("call_tool", Calls[callIdx].name,
                                            Calls[callIdx].arguments))
    /\ log' = Append(log, Event("request", Calls[callIdx].name, <<>>))
    /\ pc' = "await_call_tool"
    /\ UNCHANGED <<osEnv, server_params, transportAcq, sessionAcq, released,
                   failedAt, exc, tools, toolIdx, callIdx, result, output>>

\* Variant of RecvCallTool that re-issues a failed call once.
RecvCallToolRetried ==
    /\ pc = "await_call_tool"
    /\ \/ /\ \E content \in BoundedSeq(ContentItems, MaxContent) :
                /\ result' = content
                /\ log' = Append(log, Event("response", Calls[callIdx].name,
                                            content))
          /\ pc' = "print_result"
          /\ UNCHANGED <<failedAt, exc>>
       \/ /\ log' = Append(log, Event("error", Calls[callIdx].name, <<>>))
          /\ failedAt' = Calls[callIdx].name
          /\ IF failedAt = "none"
                THEN pc' = "call_tool" /\ UNCHANGED exc
                ELSE pc' = Unwind("session") /\ exc' = TRUE
          /\ UNCHANGED result
    /\ UNCHANGED <<osEnv, server_params, transportAcq, sessionAcq, released,
                   requests, tools, toolIdx, callIdx, output>>

\* lines 41, 51, 62: result = await ... -- the answer, or an error raised
RecvCallTool ==
    /\ pc = "await_call_tool"
    /\ \/ /\ \E content \in BoundedSeq(ContentItems, MaxContent) :
                /\ result' = content
                /\ log' = Append(log, Event("response", Calls[callIdx].name,
                                            content))
          /\ pc' = "print_result"
          /\ UNCHANGED <<failedAt, exc>>
       \/ /\ log' = Append(log, Event("error", Calls[callIdx].name, <<>>))
          /\ failedAt' = Calls[callIdx].name
          /\ exc' = TRUE
          /\ pc' = Unwind("session")
          /\ UNCHANGED result
    /\ UNCHANGED <<osEnv, server_params, transportAcq, sessionAcq, released,
                   requests, tools, toolIdx, callIdx, output>>

\* Variant of PrintResult that tolerates an empty content list: it prints
\* nothing for the call and goes on.
PrintResultTolerant ==
    /\ pc = "print_result"
    /\ IF result = <<>>
          THEN UNCHANGED output
          ELSE output' = output \o <<ResultLine(result[1].text), "">>
    /\ \/ /\ callIdx < Len(Calls)
          /\ callIdx' = callIdx + 1
          /\ pc' = "print_label"
       \/ /\ callIdx = Len(Calls)
          /\ pc' = "exit_session"
          /\ UNCHANGED callIdx
    /\ UNCHANGED <<osEnv, server_params, transportAcq, sessionAcq, released,
                   requests, log, failedAt, exc, tools, toolIdx, result>>

\* lines 47, 58, 71: print(f"Result: {result.content[0].text}\n");
\* indexing an empty list raises IndexError before anything is printed
PrintResult ==
    /\ pc = "print_result"
    /\ \/ /\ result = <<>>
          /\ exc' = TRUE
          /\ pc' = Unwind("session")
          /\ UNCHANGED <<output, callIdx>>
       \/ /\ result # <<>>
          /\ output' = output \o <<ResultLine(FirstText(result)), "">>
          /\ \/ /\ callIdx < Len(Calls)
                /\ callIdx' = callIdx + 1
                /\ pc' = "print_label"
             \/ /\ callIdx = Len(Calls)
                /\ pc' = "exit_session"
                /\ UNCHANGED callIdx
          /\ UNCHANGED exc
    /\ UNCHANGED <<osEnv, server_params, transportAcq, sessionAcq, released,
                   requests, log, failedAt, tools, toolIdx, result>>

\* line 27: ClientSession.__aexit__, on normal exit and on an exception
ExitSession ==
    /\ pc = "exit_session"
    /\ released' = Append(released, "session")
    /\ pc' = "exit_transport"
    /\ UNCHANGED <<osEnv, server_params, transportAcq, sessionAcq, requests,
                   log, failedAt, exc, tools, toolIdx, callIdx, result,
                   output>>

\* line 26: stdio_client.__aexit__, on normal exit and on an exception
ExitTransport ==
    /\ pc = "exit_transport"
    /\ released' = Append(released, "transport")
    /\ pc' = "done"
    /\ UNCHANGED <<osEnv, server_params, transportAcq, sessionAcq, requests,
                   log, failedAt, exc, tools, toolIdx, callIdx, result,
                   output>>

Next ==
    \/ BuildParams
    \/ EnterTransport
    \/ EnterSession
    \/ SendInitialize
    \/ RecvInitialize
    \/ PrintConnected
    \/ SendListTools
    \/ RecvListTools
    \/ PrintHeader
    \/ PrintTool
    \/ PrintBlank
    \/ PrintLabel
    \/ SendCallTool
    \/ RecvCallTool
    \/ PrintResult
    \/ ExitSession
    \/ ExitTransport

Spec == Init /\ [][Next]_vars

\* The running program takes its next step, and every request is answered
\* (with a response or an error).
FairSpec == Spec /\ WF_vars(Next)

Terminated == pc = "done"

\* ---- helpers used by the properties -------------------------------------
Count(seq, x) == Cardinality({i \in 1..Len(seq) : seq[i] = x})
IsPrefix(a, b) == Len(a) <= Len(b) /\ SubSeq(b, 1, Len(a)) = a
\* how a request is named on the wire: the tool for call_tool
Key(r) == IF r.method = "call_tool" THEN r.name ELSE r.method
IsCallTool(r) == r.method = "call_tool"
CallToolRequests == SelectSeq(requests, IsCallTool)
Unwinding == {"exit_session", "exit_transport", "done"}
\* the environment failed nothing: connecting, the session and every
\* request issued so far succeeded
NoRemoteFailure == failedAt = "none"

GetBalanceRequest ==
    [method |-> "call_tool", name |-> "get_balance",
     arguments |->
       [address |-> "0xd8dA6BF26964aF9D7eEd9e03E53415D37aA96045"]]
GetTokenPriceRequest ==
    [method |-> "call_tool", name |-> "get_token_price",
     arguments |->
       [token_address |-> "0x1f9840a85d5aF5bf1D1762F925BDADdC4201F984",
        quote_currency |-> "USD"]]
SwapTokensRequest ==
    [method |-> "call_tool", name |-> "swap_tokens",
     arguments |->
       [from_token |-> "0xC02aaA39b223FE8D0A0e5C4F27eAD9083C756Cc2",
        to_token |-> "0xA0b86991c6218b36c1d19D4a2e9Eb0cE3606eB48",
        amount |-> "1.0",
        slippage_tolerance |-> "0.5"]]
ThreeCalls == <<GetBalanceRequest, GetTokenPriceRequest, SwapTokensRequest>>

\* C1: in every run in which all remote requests succeed, main() issues
\* exactly the three call_tool requests get_balance, get_token_price,
\* swap_tokens, in that order and with their literal arguments, whatever
\* the responses contain.
C1_ThreeCallsWheneverRequestsSucceed ==
    (Terminated /\ NoRemoteFailure) => CallToolRequests = ThreeCalls

\* What the code does guarantee: the call_tool requests issued are always a
\* prefix of the three fixed requests, and all three on normal completion.
CallsArePrefixOfFixedSequence ==
    /\ IsPrefix(CallToolRequests, ThreeCalls)
    /\ (Terminated /\ ~exc) => CallToolRequests = ThreeCalls

\* the literal default of each launch variable (lines 20-22)
DefaultOf(k) ==
    CASE k = "ETH_RPC_URL" -> "https://eth.llamarpc.com"
      [] k = "PRIVATE_KEY" ->
           "0000000000000000000000000000000000000000000000000000000000000001"
      [] k = "CHAIN_ID"    -> "1"
\* C5: each of ETH_RPC_URL, PRIVATE_KEY and CHAIN_ID of the launch
\* configuration's env mapping is the value of the environment variable of
\* that name when it is set and the literal default otherwise, and setting
\* one variable changes no other entry.
C5_EveryVariableOverrides ==
    pc # "build_params" =>
        /\ DOMAIN server_params.env = EnvNames
        /\ \A k \in EnvNames :
              server_params.env[k] =
                  (IF osEnv[k] = Absent THEN DefaultOf(k) ELSE osEnv[k])

\* The part of C5 the code satisfies: the two variables read with os.getenv.
RpcUrlAndKeyOverride ==
    pc # "build_params" =>
        \A k \in {"ETH_RPC_URL", "PRIVATE_KEY"} :
              server_params.env[k] =
                  (IF osEnv[k] = Absent THEN DefaultOf(k) ELSE osEnv[k])

\* C2: the transport and the session are each released exactly once once
\* acquired, on every exit path; no terminated run leaves either held and
\* none is released twice.
C2_ReleasedExactlyOnce ==
    /\ transportAcq <= 1
    /\ sessionAcq <= 1
    /\ Count(released, "transport") <= transportAcq
    /\ Count(released, "session") <= sessionAcq
    /\ Terminated =>
          /\ Count(released, "transport") = transportAcq
          /\ Count(released, "session") = sessionAcq
\* a run that failed at a call_tool request after acquiring both
C2_Witness ==
    /\ Terminated /\ exc /\ failedAt = "get_balance"
    /\ transportAcq = 1 /\ sessionAcq = 1
    /\ released = <<"session", "transport">>

\* C3: no list_tools or call_tool request is issued unless the single
\* initialize handshake has completed successfully; after a failed
\* handshake nothing more is requested and initialize is not retried.
C3_HandshakeFirst ==
    /\ Cardinality({i \in 1..Len(requests) :
                       requests[i].method = "initialize"}) <= 1
    /\ (\E i \in 1..Len(requests) : requests[i].method # "initialize") =>
          /\ Len(log) >= 2
          /\ log[1] = Event("request", "initialize", <<>>)
          /\ log[2] = Event("response", "initialize", <<>>)
          /\ failedAt # "initialize"
    /\ failedAt = "initialize" =>
          requests = <<Request("initialize", Null, NoArgs)>>
C3_Witness ==
    /\ Terminated /\ failedAt = "initialize"
    /\ Len(requests) = 1

\* C4: fail-fast without retry: once a remote operation has failed the run
\* is in the error state and only unwinds, the failed request is the last
\* request ever issued, and no request is issued twice.
C4_FailFastNoRetry ==
    /\ failedAt # "none" => exc /\ pc \in Unwinding
    /\ failedAt \notin {"none", "stdio_client", "ClientSession"} =>
          /\ requests # <<>>
          /\ Key(requests[Len(requests)]) = failedAt
          /\ log[Len(log)] = Event("error", failedAt, <<>>)
    /\ failedAt \in {"stdio_client", "ClientSession"} => requests = <<>>
    /\ \A i, j \in 1..Len(requests) :
          Key(requests[i]) = Key(requests[j]) => i = j
C4_Witness ==
    /\ Terminated /\ exc /\ failedAt = "get_token_price"
    /\ Len(requests) = 4

ToolLines(ts) == [i \in 1..Len(ts) |-> ToolLine(ts[i])]
ListingStart == <<ConnectedLine, "", ToolsHeader>>
Listing(ts) == ListingStart \o ToolLines(ts) \o <<"">>
ListToolsAnswered ==
    \E i \in 1..Len(log) :
        log[i].kind = "response" /\ log[i].method = "list_tools"

\* C6: for every tool list returned, the empty one included, the driver
\* prints the header and then exactly one line per tool in the order
\* received, and goes on to the get_balance call: no failure arises between
\* the list_tools answer and the get_balance request.
C6_OneLinePerToolThenGetBalance ==
    /\ pc = "tool_loop" =>
          /\ toolIdx \in 1..(Len(tools) + 1)
          /\ output = ListingStart \o SubSeq(ToolLines(tools), 1, toolIdx - 1)
    /\ pc \in {"print_header", "tool_loop"} => ~exc
    /\ callIdx >= 1 => IsPrefix(Listing(tools), output)
    /\ Len(output) > Len(Listing(tools)) /\ callIdx >= 1 =>
          output[Len(Listing(tools)) + 1] = "Getting ETH balance..."
    /\ (ListToolsAnswered /\ pc \in Unwinding) =>
          /\ Len(requests) >= 3
          /\ requests[3] = GetBalanceRequest
C6_Witness ==
    /\ Terminated /\ ~exc /\ ListToolsAnswered
    /\ tools = <<>>
    /\ Len(CallToolRequests) = 3

MethodOrder == <<"initialize", "list_tools", "get_balance",
                 "get_token_price", "swap_tokens">>
Outstanding ==
    Len(requests) - Cardinality({i \in 1..Len(log) : Answered(log[i])})

\* C7: at most one remote request is outstanding at any time: requests and
\* answers strictly alternate, in the order initialize, list_tools,
\* get_balance, get_token_price, swap_tokens.
C7_OneRequestAtATime ==
    /\ Len(log) <= 2 * Len(MethodOrder)
    /\ \A i \in 1..Len(log) :
          IF i % 2 = 1
            THEN /\ log[i].kind = "request"
                 /\ log[i].method = MethodOrder[(i + 1) \div 2]
                 /\ Key(requests[(i + 1) \div 2]) = log[i].method
            ELSE /\ Answered(log[i])
                 /\ log[i].method = log[i - 1].method
    /\ Len(requests) = (Len(log) + 1) \div 2
    /\ Outstanding \in {0, 1}
C7_Witness ==
    /\ Len(log) = 10
    /\ log[10].kind = "response"
    /\ Terminated

\* position in log of the answer to the i-th call_tool request
AnswerIdx(i) == 2 * (2 + i)
AnsweredWithContent(i) ==
    /\ Len(log) >= AnswerIdx(i)
    /\ log[AnswerIdx(i)].kind = "response"
    /\ log[AnswerIdx(i)].payload # <<>>
AnsweredEmpty(i) ==
    /\ Len(log) >= AnswerIdx(i)
    /\ log[AnswerIdx(i)].kind = "response"
    /\ log[AnswerIdx(i)].payload = <<>>
\* index in output of the label line of the i-th call
LabelIdx(i) == Len(Listing(tools)) + 3 * (i - 1) + 1
Labels == <<"Getting ETH balance...",
            "Getting UNI token price in USD...",
            "Simulating token swap (1 WETH -> USDC)...">>

\* C8: when the three call_tool requests each return at least one content
\* item, the output holds, for get_balance, get_token_price and swap_tokens
\* in that order, the call's label line immediately followed by "Result: "
\* and the text of the first content item of that call's result; a call's
\* label is printed before its request is issued and its result line
\* before the next call's label.
C8_LabelThenFirstText ==
    \A i \in 1..3 :
        /\ Len(requests) >= 2 + i =>
              /\ Len(output) >= LabelIdx(i)
              /\ output[LabelIdx(i)] = Labels[i]
        /\ (Len(requests) >= 2 + i /\ Len(log) < AnswerIdx(i)) =>
              Len(output) = LabelIdx(i)
        /\ Len(output) > LabelIdx(i) =>
              /\ AnsweredWithContent(i)
              /\ Len(output) >= LabelIdx(i) + 2
              /\ output[LabelIdx(i) + 1] =
                    "Result: " \o log[AnswerIdx(i)].payload[1].text
              /\ output[LabelIdx(i) + 2] = ""
        /\ (Terminated /\ \A j \in 1..3 : AnsweredWithContent(j)) =>
              /\ ~exc
              /\ Len(output) = LabelIdx(3) + 2
C8_Witness ==
    /\ Terminated
    /\ \A j \in 1..3 : AnsweredWithContent(j)
    /\ Len(log[AnswerIdx(2)].payload) = 2
    /\ log[AnswerIdx(2)].payload[1] # log[AnswerIdx(2)].payload[2]

\* C9: when a call_tool request succeeds with an empty content list, the
\* run fails when it indexes the first content item: the call's label is
\* the last line printed (no result line for it), no later call_tool
\* request is issued, and session and transport are released exactly once.
C9_EmptyContentFails ==
    \A i \in 1..3 :
        (AnsweredEmpty(i) /\ pc # "print_result") =>
            /\ exc
            /\ pc \in Unwinding
            /\ failedAt = "none"
            /\ Len(requests) = 2 + i
            /\ Len(output) = LabelIdx(i)
            /\ output[Len(output)] = Labels[i]
            /\ Count(released, "session") <= 1
            /\ Count(released, "transport") <= 1
            /\ Terminated => released = <<"session", "transport">>
C9_Witness ==
    /\ Terminated
    /\ AnsweredWithContent(1)
    /\ AnsweredEmpty(2)

Awaiting == {"await_initialize", "await_list_tools", "await_call_tool"}

OnlyTheAnswerEndsAWait ==
    pc \in Awaiting =>
        /\ Len(log') = Len(log) + 1
        /\ Answered(log'[Len(log')])
        /\ requests' = requests

\* C10: if every remote request is eventually answered or fails, every run
\* terminates, having issued at most five remote requests, with every
\* scope it entered released, the session before the transport; a run that
\* is waiting for an answer is not terminated and leaves that wait only by
\* the answer or the error arriving (there is no timeout or cancellation).
C10_TerminatesReleased ==
    /\ <>Terminated
    /\ [](Len(requests) <= 5)
    /\ [](Terminated =>
            released = (IF sessionAcq = 1 THEN <<"session">> ELSE <<>>)
                       \o (IF transportAcq = 1 THEN <<"transport">> ELSE <<>>))
    /\ [](sessionAcq = 1 => transportAcq = 1)
    /\ [][OnlyTheAnswerEndsAWait]_vars
C10_Witness ==
    /\ Terminated
    /\ Len(requests) = 5
    /\ released = <<"session", "transport">>
====
